---- MODULE Spec2Model ----
(***************************************************************************)
(* Polkadot state machine: the overlay of prospective and committed        *)
(* changes (state_machine/src/lib.rs), the externalities handed to the     *)
(* code executor (state_machine/src/ext.rs) and execute(), which commits   *)
(* or discards the overlay on the executor's result.                       *)
(*                                                                         *)
(* Byte strings (Vec<u8>, &[u8]) are sequences of numbers in 0..255.       *)
(* A HashMap<Vec<u8>, Vec<u8>> is a function whose DOMAIN is the set of    *)
(* keys that have an entry.  Option<T> and Result<T, E> are records.       *)
(***************************************************************************)
EXTENDS Integers, Sequences, FiniteSets, TLC

VARIABLES
    overlay,      \* the OverlayedChanges: [prospective, committed], each the
                  \* storage map of a MemoryState
    backend,      \* the Backend passed to execute(): key -> Result, read-only
    pc,           \* "idle": no call in progress; "call": inside exec.call()
    code,         \* the copy of the code blob execute() hands to the executor
    codeErr,      \* history: the lookup of the code blob failed in this call
    pre,          \* history: key -> read(key) just before execute() was called
    preEmpty,     \* history: prospective was empty just before execute() was called
    undo,         \* history: the overlay just before the commit or discard that
                  \* was the last operation
    callWrites,   \* history: key -> last value this call wrote through Ext
    ret,          \* history: what exec.call() returned to execute()
    result,       \* what execute() returned to its caller
    lastRead,     \* history: the last Ext.storage(key) of this call and its outcome
    epochBase,    \* history: key -> read(key) when prospective was last emptied
    durable,      \* history: key -> last value a successful execute() wrote
    commitW,      \* history: key -> read(key) right after the commit of a write
    prev,         \* history: outcome of the execute() that returned just before this one
    vals,         \* what the last Ext.validators() returned
    op,           \* history: name of the last operation
    deleted,      \* history: keys a successful execute() deleted and no write
                  \* has given a non-empty value since
    again,        \* history: the last two operations were discard_prospective()
    codec         \* an integer, its value_vec encoding and the decoded count

vars == <<overlay, backend, pc, code, codeErr, pre, preEmpty, undo,
          callWrites, ret, result, lastRead, epochBase, durable, commitW,
          prev, vals, op, deleted, again, codec>>

----------------------------------------------------------------------------
(* Bounds of the model *)

MaxByte == 2       \* non-empty values are <<1>> .. <<MaxByte>>
MaxCountLow == 2   \* low byte of a stored validator count: 0..MaxCountLow or 255
MaxCountHigh == 1  \* high byte of a stored validator count: 0..MaxCountHigh
MaxEncoded == 300  \* the integers 0..MaxEncoded are encoded and decoded

----------------------------------------------------------------------------
(* Option and Result *)

None == [some |-> FALSE, val |-> <<>>]
Some(v) == [some |-> TRUE, val |-> v]

Ok(v) == [ok |-> TRUE, val |-> v, err |-> ""]
Err(e) == [ok |-> FALSE, val |-> <<>>, err |-> e]

NoResult == [ok |-> FALSE, val |-> <<>>, err |-> "-"]

EmptyMap == [k \in {} |-> <<>>]

----------------------------------------------------------------------------
(* Keys and values *)

\* b"\0code"
CodeKey == <<0, 99, 111, 100, 101>>
\* b"\0validator_count"
ValidatorCountKey == <<0, 118, 97, 108, 105, 100, 97, 116, 111, 114, 95, 99, 111, 117, 110, 116>>
\* b"\0validator"
ValidatorKey == <<0, 118, 97, 108, 105, 100, 97, 116, 111, 114>>

\* the key of tests::overlayed_storage_works
UserKey == <<42, 69, 169, 142>>

\* the keys operations are called with
Keys == {CodeKey, UserKey}
Values == {<<>>} \cup {<<b>> : b \in 1..MaxByte}

BackendErrors == {"backend"}
ExecutorErrors == {"trap", "fuel"}
Outputs == {<<7>>}

----------------------------------------------------------------------------
(* MemoryState *)

\* MemoryState::storage
MemoryState_storage(m, key) ==
    IF key \in DOMAIN m THEN Some(m[key]) ELSE None

\* MemoryState::set_storage: HashMap::insert
MemoryState_set_storage(m, key, val) ==
    [k \in DOMAIN m \cup {key} |-> IF k = key THEN val ELSE m[k]]

\* HashMap::remove
MapRemove(m, key) == [k \in DOMAIN m \ {key} |-> m[k]]

\* update() that skips deletions
ApplyUpdate_ignores_empty(m, key, val) ==
    IF val = <<>> THEN m
    ELSE MemoryState_set_storage(m, key, val)

\* update() that stores an empty value instead of removing the key
ApplyUpdate_inserts_empty(m, key, val) ==
    MemoryState_set_storage(m, key, val)

\* One Update::Storage(key, val) applied by MemoryState::update
ApplyUpdate(m, key, val) ==
    IF val = <<>> THEN MapRemove(m, key)
    ELSE MemoryState_set_storage(m, key, val)

\* MemoryState::update over the drained entries of `changes`, in the
\* (arbitrary) order the HashMap yields them.
RECURSIVE MemoryState_update(_, _)
MemoryState_update(m, changes) ==
    IF DOMAIN changes = {} THEN m
    ELSE LET key == CHOOSE k \in DOMAIN changes : TRUE
         IN MemoryState_update(ApplyUpdate(m, key, changes[key]),
                               MapRemove(changes, key))

----------------------------------------------------------------------------
(* OverlayedChanges *)

\* OverlayedChanges::default()
DefaultOverlay == [prospective |-> EmptyMap, committed |-> EmptyMap]

\* storage() that skips an empty prospective entry and reads the committed one
OverlayedChanges_storage_falls_through(o, key) ==
    LET p == MemoryState_storage(o.prospective, key)
        found == IF p.some /\ p.val # <<>>
                 THEN p
                 ELSE MemoryState_storage(o.committed, key)
    IN IF found.some /\ found.val # <<>> THEN found ELSE None

\* OverlayedChanges::storage
OverlayedChanges_storage(o, key) ==
    LET found == IF MemoryState_storage(o.prospective, key).some
                 THEN MemoryState_storage(o.prospective, key)
                 ELSE MemoryState_storage(o.committed, key)
    IN IF found.some /\ found.val # <<>> THEN found ELSE None

\* set_storage() that writes through to the committed layer
OverlayedChanges_set_storage_committed(o, key, val) ==
    [o EXCEPT !.committed = MemoryState_set_storage(o.committed, key, val)]

\* OverlayedChanges::set_storage
OverlayedChanges_set_storage(o, key, val) ==
    [o EXCEPT !.prospective = MemoryState_set_storage(o.prospective, key, val)]

\* discard_prospective() that removes one entry only
discard_prospective_one(o) ==
    IF DOMAIN o.prospective = {} THEN o
    ELSE [o EXCEPT !.prospective =
              MapRemove(o.prospective, CHOOSE k \in DOMAIN o.prospective : TRUE)]

\* discard_prospective() that clears nothing
discard_prospective_noop(o) == o

\* discard_prospective() that clears both layers
discard_prospective_clears_all(o) ==
    [prospective |-> EmptyMap, committed |-> EmptyMap]

\* OverlayedChanges::discard_prospective
discard_prospective(o) ==
    [o EXCEPT !.prospective = EmptyMap]

\* commit_prospective() that copies every drained entry into committed
commit_prospective_extends(o) ==
    [prospective |-> EmptyMap,
     committed |-> [k \in DOMAIN o.committed \cup DOMAIN o.prospective |->
                      IF k \in DOMAIN o.prospective THEN o.prospective[k]
                      ELSE o.committed[k]]]

\* OverlayedChanges::commit_prospective: drain() empties the prospective
\* layer and update() applies what it held to the committed layer
commit_prospective(o) ==
    [prospective |-> EmptyMap,
     committed |-> MemoryState_update(o.committed, o.prospective)]

----------------------------------------------------------------------------
(* Backend and Ext *)

\* Backend::storage: a key the backend does not hold reads as empty
Backend_storage(b, key) ==
    IF key \in DOMAIN b THEN b[key] ELSE Ok(<<>>)

\* storage() that asks the backend first and the overlay when it has nothing
Ext_storage_backend_first(o, b, key) ==
    LET x == OverlayedChanges_storage(o, key)
        y == Backend_storage(b, key)
    IN IF y.ok /\ y.val = <<>> /\ x.some
       THEN [res |-> Ok(x.val), consulted |-> TRUE]
       ELSE [res |-> y, consulted |-> TRUE]

\* Ext::storage; `consulted` records whether the backend was looked up
Ext_storage(o, b, key) ==
    LET x == OverlayedChanges_storage(o, key)
    IN IF x.some THEN [res |-> Ok(x.val), consulted |-> FALSE]
       ELSE [res |-> Backend_storage(b, key), consulted |-> TRUE]

\* Ext::set_storage
Ext_set_storage(o, key, val) == OverlayedChanges_set_storage(o, key, val)

\* value_vec with a loop that pushes a byte before it tests the value
RECURSIVE value_vec_pushes_first(_, _)
value_vec_pushes_first(value, initial) ==
    IF value \div 256 > 0
    THEN value_vec_pushes_first(value \div 256, Append(initial, value % 256))
    ELSE Append(initial, value % 256)

\* value_vec: `value as u8` is value % 256
RECURSIVE value_vec(_, _)
value_vec(value, initial) ==
    IF value > 0
    THEN value_vec(value \div 256, Append(initial, value % 256))
    ELSE initial

\* a decoder that does not reverse the stored bytes
Rev_identity(s) == s

\* Iterator::rev
Rev(s) == [i \in 1..Len(s) |-> s[Len(s) + 1 - i]]

\* fold(0, |acc, &i| (acc << 8) + (i as usize)); a usize holds the shifted
\* value as long as the count has at most 8 bytes
RECURSIVE FoldCount(_, _)
FoldCount(bytes, acc) ==
    IF bytes = <<>> THEN acc
    ELSE FoldCount(Tail(bytes), acc * 256 + Head(bytes))

\* a collect that leaves the failed reads out
Collect_skips_errors(reads) ==
    Ok([i \in DOMAIN reads |-> reads[i].val])

\* collect::<Result<Vec<_>, _>>(): the first Err, or all the Ok values
Collect(reads) ==
    IF \E i \in DOMAIN reads : ~reads[i].ok
    THEN LET first == CHOOSE i \in DOMAIN reads :
                          /\ ~reads[i].ok
                          /\ \A j \in DOMAIN reads : ~reads[j].ok => i <= j
         IN Err(reads[first].err)
    ELSE Ok([i \in DOMAIN reads |-> reads[i].val])

\* Externalities::validators, for an Ext
Externalities_validators(o, b) ==
    LET count == Ext_storage(o, b, ValidatorCountKey).res
    IN IF ~count.ok THEN Err(count.err)
       ELSE LET n == FoldCount(Rev(count.val), 0)
            IN Collect([i \in 1..n |->
                          Ext_storage(o, b, value_vec(i - 1, ValidatorKey)).res])

\* Result::unwrap_or
UnwrapOr(r, default) == IF r.ok THEN r.val ELSE default

\* execute() that loads the code from the backend only
LoadCode_backend_only(o, b) == UnwrapOr(Backend_storage(b, CodeKey), <<>>)

\* execute(): the copy of the code blob made before the call
LoadCode(o, b) == UnwrapOr(Ext_storage(o, b, CodeKey).res, <<>>)

\* execute() that discards the overlay on success as well
ExecuteMatch_discards(o, r) ==
    IF r.ok
    THEN [overlay |-> discard_prospective(o), result |-> Ok(r.val)]
    ELSE [overlay |-> discard_prospective(o), result |-> Err(r.err)]

\* execute() that leaves the overlay as it is on an error
ExecuteMatch_keeps_on_error(o, r) ==
    IF r.ok
    THEN [overlay |-> commit_prospective(o), result |-> Ok(r.val)]
    ELSE [overlay |-> o, result |-> Err(r.err)]

\* execute(): the match on the executor's result
ExecuteMatch(o, r) ==
    IF r.ok
    THEN [overlay |-> commit_prospective(o), result |-> Ok(r.val)]
    ELSE [overlay |-> discard_prospective(o), result |-> Err(r.err)]

----------------------------------------------------------------------------
(* History helpers *)

ReadAll(o) == [k \in Keys |-> OverlayedChanges_storage(o, k)]
NoWrites == [k \in Keys |-> None]
NoPrev == [res |-> "none", code |-> <<>>, wrote |-> None, preEmpty |-> TRUE]
NoRead == [key |-> <<>>, res |-> NoResult, consulted |-> FALSE, valid |-> FALSE]
NoVals == [ok |-> FALSE, val |-> <<>>, err |-> "-"]
NoCodec == [stage |-> "none", value |-> 0, bytes |-> <<>>, decoded |-> 0]

\* entries of `d` for the keys a commit of the layer `p` does not touch
Untouched(d, p) == [k \in Keys |-> IF k \in DOMAIN p THEN None ELSE d[k]]

\* commitW after the commit that takes overlay `o` to `o2`
CommitSnapshot(w, o, o2) ==
    [k \in Keys |-> IF k \in DOMAIN o.prospective
                    THEN Some(OverlayedChanges_storage(o2, k))
                    ELSE w[k]]

----------------------------------------------------------------------------
(* Initial state: OverlayedChanges::default() and some backend *)

BackendResults == {Ok(<<>>), Ok(<<1>>)} \cup {Err(e) : e \in BackendErrors}

Init ==
    /\ overlay = DefaultOverlay
    /\ backend \in [Keys -> BackendResults]
    /\ pc = "idle"
    /\ code = <<>>
    /\ codeErr = FALSE
    /\ pre = NoWrites
    /\ preEmpty = TRUE
    /\ undo = DefaultOverlay
    /\ callWrites = NoWrites
    /\ ret = NoResult
    /\ result = NoResult
    /\ lastRead = NoRead
    /\ epochBase = ReadAll(DefaultOverlay)
    /\ durable = NoWrites
    /\ commitW = NoWrites
    /\ prev = NoPrev
    /\ vals = NoVals
    /\ op = "init"
    /\ deleted = {}
    /\ again = FALSE
    /\ codec = NoCodec

----------------------------------------------------------------------------
(* Operations on the overlay outside a call *)

\* history of an operation made outside execute()
Outside ==
    /\ result' = NoResult
    /\ ret' = NoResult
    /\ callWrites' = NoWrites
    /\ prev' = NoPrev
    /\ codeErr' = FALSE
    /\ pre' = NoWrites
    /\ preEmpty' = TRUE
    /\ UNCHANGED <<backend, pc, code, lastRead, vals, codec>>

\* overlayed.set_storage(key, val)
Write(key, val) ==
    /\ pc = "idle"
    /\ overlay' = OverlayedChanges_set_storage(overlay, key, val)
    /\ op' = "write"
    /\ undo' = DefaultOverlay
    /\ deleted' = IF val # <<>> THEN deleted \ {key} ELSE deleted
    /\ again' = FALSE
    /\ Outside
    /\ UNCHANGED <<epochBase, durable, commitW>>

\* overlayed.discard_prospective()
Discard ==
    /\ pc = "idle"
    /\ overlay' = discard_prospective(overlay)
    /\ op' = "discard"
    /\ undo' = overlay
    /\ again' = (op = "discard")
    /\ Outside
    /\ UNCHANGED <<epochBase, durable, commitW, deleted>>

\* overlayed.commit_prospective()
Commit ==
    /\ pc = "idle"
    /\ overlay' = commit_prospective(overlay)
    /\ op' = "commit"
    /\ undo' = overlay
    /\ again' = FALSE
    /\ Outside
    /\ UNCHANGED deleted
    /\ epochBase' = ReadAll(overlay')
    /\ durable' = Untouched(durable, overlay.prospective)
    /\ commitW' = CommitSnapshot(commitW, overlay, overlay')

----------------------------------------------------------------------------
(* execute() *)

\* execute() up to exec.call(): builds the Ext and copies the code blob
ExecuteCall ==
    /\ pc = "idle"
    /\ pc' = "call"
    /\ code' = LoadCode(overlay, backend)
    /\ codeErr' = ~Ext_storage(overlay, backend, CodeKey).res.ok
    /\ pre' = ReadAll(overlay)
    /\ preEmpty' = (DOMAIN overlay.prospective = {})
    /\ undo' = DefaultOverlay
    /\ callWrites' = NoWrites
    /\ ret' = NoResult
    /\ result' = NoResult
    /\ lastRead' = NoRead
    /\ op' = "call"
    /\ again' = FALSE
    /\ UNCHANGED <<overlay, backend, epochBase, durable, commitW, prev, vals,
                   deleted, codec>>

\* the executor calls ext.set_storage(key, val)
ExtSetStorage(key, val) ==
    /\ pc = "call"
    /\ overlay' = Ext_set_storage(overlay, key, val)
    /\ callWrites' = [k \in DOMAIN callWrites |->
                        IF k = key THEN Some(val) ELSE callWrites[k]]
    /\ lastRead' = NoRead
    /\ op' = "call"
    /\ prev' = NoPrev
    /\ vals' = NoVals
    /\ deleted' = IF val # <<>> THEN deleted \ {key} ELSE deleted
    /\ UNCHANGED <<backend, pc, code, codeErr, pre, preEmpty, undo, ret,
                   result, epochBase, durable, commitW, again, codec>>

\* the executor calls ext.storage(key)
ExtStorage(key) ==
    /\ pc = "call"
    /\ LET r == Ext_storage(overlay, backend, key)
       IN lastRead' = [key |-> key, res |-> r.res, consulted |-> r.consulted,
                       valid |-> TRUE]
    /\ op' = "call"
    /\ prev' = NoPrev
    /\ UNCHANGED <<overlay, backend, pc, code, codeErr, pre, preEmpty, undo,
                   callWrites, ret, result, epochBase, durable, commitW, vals,
                   deleted, again, codec>>

\* exec.call() returns r and execute() commits or discards
ExecutorReturn(r) ==
    /\ pc = "call"
    /\ pc' = "idle"
    /\ LET m == ExecuteMatch(overlay, r)
       IN /\ overlay' = m.overlay
          /\ result' = m.result
    /\ ret' = r
    /\ op' = IF r.ok THEN "exec_ok" ELSE "exec_err"
    /\ undo' = overlay
    /\ code' = <<>>
    /\ lastRead' = NoRead
    /\ epochBase' = IF r.ok THEN ReadAll(overlay') ELSE epochBase
    /\ durable' = IF r.ok
                  THEN [k \in Keys |->
                          IF callWrites[k].some /\ callWrites[k].val # <<>>
                          THEN callWrites[k]
                          ELSE Untouched(durable, overlay.prospective)[k]]
                  ELSE durable
    /\ commitW' = IF r.ok THEN CommitSnapshot(commitW, overlay, overlay')
                  ELSE commitW
    /\ prev' = [res |-> IF r.ok THEN "ok" ELSE "err",
                code |-> code,
                wrote |-> callWrites[CodeKey],
                preEmpty |-> preEmpty]
    /\ deleted' = IF r.ok
                  THEN deleted \cup {k \in Keys : callWrites[k] = Some(<<>>)}
                  ELSE deleted
    /\ UNCHANGED <<backend, codeErr, pre, preEmpty, callWrites, vals, again,
                   codec>>

ExecutorResults == {Ok(o) : o \in Outputs} \cup {Err(e) : e \in ExecutorErrors}

Next ==
    \/ \E k \in Keys, v \in Values : Write(k, v)
    \/ Discard
    \/ Commit
    \/ ExecuteCall
    \/ \E k \in Keys, v \in Values : ExtSetStorage(k, v)
    \/ \E k \in Keys : ExtStorage(k)
    \/ \E r \in ExecutorResults : ExecutorReturn(r)

Spec == Init /\ [][Next]_vars

\* the overlay as its public interface mutates it: execute(),
\* commit_prospective() and discard_prospective()
NextPublic ==
    \/ Discard
    \/ Commit
    \/ ExecuteCall
    \/ \E k \in Keys, v \in Values : ExtSetStorage(k, v)
    \/ \E k \in Keys : ExtStorage(k)
    \/ \E r \in ExecutorResults : ExecutorReturn(r)

SpecPublic == Init /\ [][NextPublic]_vars

----------------------------------------------------------------------------
(* The validator list: one call in which the executor writes the validator
   keys and reads the list back *)

\* the stored counts: none, one byte, two bytes
CountLowBytes == (0..MaxCountLow) \cup {255}
CountValues ==
    {<<>>} \cup {<<lo>> : lo \in CountLowBytes}
           \cup {<<lo, hi>> : lo \in CountLowBytes, hi \in 0..MaxCountHigh}

\* the entries of index 0, 1 and 256
EntryKeys == {ValidatorKey, ValidatorKey \o <<1>>, ValidatorKey \o <<0, 1>>}
\* an entry is deleted or set to b"f"
EntryValues == {<<>>, <<102>>}

\* the committed layers the call starts with
ValidatorCommitted ==
    {EmptyMap, (ValidatorCountKey :> <<1>>) @@ (ValidatorKey :> <<99>>)}

\* the keys the backend holds, or fails on
ValidatorBackendKeys == {ValidatorCountKey, ValidatorKey, ValidatorKey \o <<1>>}

\* what the backend answers for such a key: a value, or one of two failures
ValidatorBackendResults == BackendResults \cup {Err("corrupt")}

\* the state when exec.call() starts
InitValidators ==
    /\ overlay \in {[prospective |-> EmptyMap, committed |-> c] :
                        c \in ValidatorCommitted}
    /\ backend \in [ValidatorBackendKeys -> ValidatorBackendResults]
    /\ pc = "call"
    /\ code = LoadCode(overlay, backend)
    /\ codeErr = ~Ext_storage(overlay, backend, CodeKey).res.ok
    /\ pre = ReadAll(overlay)
    /\ preEmpty = TRUE
    /\ undo = DefaultOverlay
    /\ callWrites = NoWrites
    /\ ret = NoResult
    /\ result = NoResult
    /\ lastRead = NoRead
    /\ epochBase = ReadAll(overlay)
    /\ durable = NoWrites
    /\ commitW = NoWrites
    /\ prev = NoPrev
    /\ vals = NoVals
    /\ op = "call"
    /\ deleted = {}
    /\ again = FALSE
    /\ codec = NoCodec

\* the executor calls ext.validators()
ExtValidators ==
    /\ pc = "call"
    /\ vals' = Externalities_validators(overlay, backend)
    /\ lastRead' = NoRead
    /\ op' = "call"
    /\ prev' = NoPrev
    /\ UNCHANGED <<overlay, backend, pc, code, codeErr, pre, preEmpty, undo,
                   callWrites, ret, result, epochBase, durable, commitW,
                   deleted, again, codec>>

NextValidators ==
    \/ \E v \in CountValues : ExtSetStorage(ValidatorCountKey, v)
    \/ \E k \in EntryKeys, v \in EntryValues : ExtSetStorage(k, v)
    \/ ExtValidators

SpecValidators == InitValidators /\ [][NextValidators]_vars

----------------------------------------------------------------------------
(* The integer encoding of the validator list: value_vec encodes an integer,
   the fold of validators() decodes the bytes *)

\* the integers of the round trip: a range, and the boundaries of one, two
\* and three bytes
CodecInputs == (0..MaxEncoded) \cup {255, 256, 65535, 65536}

InitCodec ==
    /\ overlay = DefaultOverlay
    /\ backend = [k \in Keys |-> Ok(<<>>)]
    /\ pc = "idle"
    /\ code = <<>>
    /\ codeErr = FALSE
    /\ pre = NoWrites
    /\ preEmpty = TRUE
    /\ undo = DefaultOverlay
    /\ callWrites = NoWrites
    /\ ret = NoResult
    /\ result = NoResult
    /\ lastRead = NoRead
    /\ epochBase = ReadAll(DefaultOverlay)
    /\ durable = NoWrites
    /\ commitW = NoWrites
    /\ prev = NoPrev
    /\ vals = NoVals
    /\ op = "init"
    /\ deleted = {}
    /\ again = FALSE
    /\ codec \in {[stage |-> "input", value |-> i, bytes |-> <<>>, decoded |-> 0] :
                     i \in CodecInputs}

\* value_vec(value, vec![])
Encode ==
    /\ codec.stage = "input"
    /\ codec' = [codec EXCEPT !.stage = "encoded",
                              !.bytes = value_vec(codec.value, <<>>)]
    /\ UNCHANGED <<overlay, backend, pc, code, codeErr, pre, preEmpty, undo,
                   callWrites, ret, result, lastRead, epochBase, durable,
                   commitW, prev, vals, op, deleted, again>>

\* the decoding of validators(): into_iter().rev().fold(..)
Decode ==
    /\ codec.stage = "encoded"
    /\ codec' = [codec EXCEPT !.stage = "decoded",
                              !.decoded = FoldCount(Rev(codec.bytes), 0)]
    /\ UNCHANGED <<overlay, backend, pc, code, codeErr, pre, preEmpty, undo,
                   callWrites, ret, result, lastRead, epochBase, durable,
                   commitW, prev, vals, op, deleted, again>>

NextCodec == Encode \/ Decode

SpecCodec == InitCodec /\ [][NextCodec]_vars

----------------------------------------------------------------------------
(* Properties *)

read(k) == OverlayedChanges_storage(overlay, k)

NonEmptyWrite(w) == w.some /\ w.val # <<>>

\* C1 as stated: after a failed execute(), from any overlay state, read(k)
\* is what it was just before the call, for every key k, and the error
\* returned is the executor's error.
C1_FailedExecuteAtomicAnyState ==
    op = "exec_err" =>
        /\ \A k \in Keys : read(k) = pre[k]
        /\ result = Err(ret.err)

\* C1 (amended): after a failed execute() that was called with an empty
\* prospective layer, read(k) is what it was just before the call, for
\* every key k, and the error returned is the executor's error.
C1_FailedExecuteAtomic ==
    (op = "exec_err" /\ preEmpty) =>
        /\ \A k \in Keys : read(k) = pre[k]
        /\ result = Err(ret.err)

\* a failed call whose writes had changed what the overlay reads
C1_Witness ==
    /\ op = "exec_err"
    /\ preEmpty
    /\ \E k \in Keys : NonEmptyWrite(callWrites[k])
                       /\ OverlayedChanges_storage(undo, k) # pre[k]
    /\ \E k \in Keys : callWrites[k] = Some(<<>>) /\ pre[k].some

\* C2: a non-empty value v that was the last write of a successful
\* execute() to k is read back right after the call, and is still read
\* back after every later discard (a plain discard_prospective() or the one
\* of a failed execute()) as long as no later commit has rewritten k.
C2_SuccessfulExecuteDurable ==
    \A k \in Keys :
        /\ (op = "exec_ok" /\ NonEmptyWrite(callWrites[k]))
               => read(k) = callWrites[k]
        /\ (op \in {"discard", "exec_err"} /\ durable[k].some)
               => read(k) = durable[k]

\* a later failed execute() had overwritten the durable value of k
C2_Witness ==
    /\ op = "exec_err"
    /\ \E k \in Keys : /\ durable[k].some
                       /\ callWrites[k].some
                       /\ callWrites[k] # durable[k]
                       /\ pre[k] = durable[k]

\* C3: after discard_prospective(), read(k) is what it was when the
\* prospective layer was last empty, before the first of the writes that
\* are discarded, for every key k.
C3_DiscardFullRollback ==
    op \in {"discard", "exec_err"} =>
        \A k \in Keys : read(k) = epochBase[k]

\* a discard of several writes, one a deletion of a committed value and
\* one a new value
C3_Witness ==
    /\ op = "discard"
    /\ \E k \in DOMAIN undo.prospective :
           undo.prospective[k] = <<>> /\ epochBase[k].some
    /\ \E k \in DOMAIN undo.prospective :
           undo.prospective[k] # <<>> /\ epochBase[k] # Some(undo.prospective[k])

\* C4: commit_prospective() leaves read(k) unchanged for every key k and
\* leaves the prospective layer empty.
C4_CommitReadTransparent ==
    op \in {"commit", "exec_ok"} =>
        /\ \A k \in Keys : read(k) = OverlayedChanges_storage(undo, k)
        /\ DOMAIN overlay.prospective = {}

\* a commit of a deletion of a committed value together with a new value
C4_Witness ==
    /\ op = "commit"
    /\ \E k \in DOMAIN undo.prospective :
           undo.prospective[k] = <<>> /\ k \in DOMAIN undo.committed
    /\ \E k \in DOMAIN undo.prospective :
           undo.prospective[k] # <<>> /\ k \notin DOMAIN undo.committed

\* C5: a discard_prospective() after the commit of writes W leaves read(k),
\* for every key k written in W, what it was right after that commit.
C5_CommittedWritesSurviveDiscard ==
    op = "discard" =>
        \A k \in Keys : commitW[k].some => read(k) = commitW[k].val

\* the discard dropped a later write to a key whose value had been committed
C5_Witness ==
    /\ op = "discard"
    /\ \E k \in DOMAIN undo.prospective :
           /\ commitW[k].some
           /\ commitW[k].val.some
           /\ undo.prospective[k] # commitW[k].val.val

\* C6: the commit of write(k, empty) for a key k that has an entry in
\* committed leaves no entry for k in committed, and read(k) absent.
C6_CommittedDeletionRemovesKey ==
    op = "commit" =>
        \A k \in Keys :
            (/\ k \in DOMAIN undo.committed
             /\ k \in DOMAIN undo.prospective
             /\ undo.prospective[k] = <<>>)
            => (k \notin DOMAIN overlay.committed /\ read(k) = None)

\* a commit of a deletion of a key that had a committed entry
C6_Witness ==
    /\ op = "commit"
    /\ \E k \in Keys : /\ k \in DOMAIN undo.committed
                       /\ k \in DOMAIN undo.prospective
                       /\ undo.prospective[k] = <<>>

\* C7: Ext.storage(k) does not look the backend up when the prospective or
\* the committed layer holds an entry for k, an empty one included.
C7_BackendOnlyWithoutEntry ==
    (/\ lastRead.valid
     /\ lastRead.key \in DOMAIN overlay.prospective \cup DOMAIN overlay.committed)
    => ~lastRead.consulted

\* C8: when the load of the code blob fails or the executor returns an
\* error, execute() returns an error, nothing is committed and the
\* prospective layer is empty.
C8_NoSwallowedError ==
    (op \in {"exec_ok", "exec_err"} /\ (codeErr \/ ~ret.ok)) =>
        /\ ~result.ok
        /\ overlay.committed = undo.committed
        /\ DOMAIN overlay.prospective = {}

\* the code blob execute() is to hand over, as the claim resolves it: the
\* overlay's read of the code key, else the backend's value, else empty
ResolvedCode ==
    IF read(CodeKey).some THEN read(CodeKey).val
    ELSE IF backend[CodeKey].ok THEN backend[CodeKey].val
    ELSE <<>>

\* C9 as stated: each execute() hands over the code resolved at its start;
\* after a successful execute() that wrote a non-empty blob c the next one
\* hands over c, and after a failed execute() the next one hands over the
\* code the failed one was given.
C9_CodeFollowsOverlayAnyState ==
    [][(pc = "idle" /\ pc' = "call") =>
          /\ code' = ResolvedCode
          /\ (prev.res = "ok" /\ NonEmptyWrite(prev.wrote))
                 => code' = prev.wrote.val
          /\ prev.res = "err" => code' = prev.code]_vars

\* C9 (amended): as C9, the last part for a failed execute() that was
\* called with an empty prospective layer.
C9_CodeFollowsOverlay ==
    [][(pc = "idle" /\ pc' = "call") =>
          /\ code' = ResolvedCode
          /\ (prev.res = "ok" /\ NonEmptyWrite(prev.wrote))
                 => code' = prev.wrote.val
          /\ (prev.res = "err" /\ prev.preEmpty) => code' = prev.code]_vars

\* an execute() that is given the blob the previous, successful one wrote,
\* which is not the backend's
C9_Witness ==
    /\ pc = "call"
    /\ prev.res = "ok"
    /\ NonEmptyWrite(prev.wrote)
    /\ code = prev.wrote.val
    /\ backend[CodeKey] # Ok(code)

\* an execute() after a failed one that had replaced the code
C9_WitnessFailed ==
    /\ pc = "call"
    /\ prev.res = "err"
    /\ prev.preEmpty
    /\ NonEmptyWrite(prev.wrote)
    /\ prev.wrote.val # code
    /\ code = prev.code

\* the count the claim decodes from the stored bytes: the sum of
\* byte * 256^position, the first byte the least significant
RECURSIVE CountOf(_)
CountOf(bytes) ==
    IF bytes = <<>> THEN 0
    ELSE Head(bytes) + 256 * CountOf(Tail(bytes))

\* the suffix of the key of entry i: nothing for 0, else the bytes of i,
\* least significant first, without leading zeros
SuffixOf(i) ==
    IF i = 0 THEN <<>>
    ELSE IF i < 256 THEN <<i>>
    ELSE IF i < 65536 THEN <<i % 256, i \div 256>>
    ELSE <<i % 256, (i \div 256) % 256, i \div 65536>>

\* C10: when validators() succeeds it returns exactly n values, n the count
\* decoded from the bytes at \0validator_count (0 when absent or empty), and
\* its i-th value is what storage(\0validator ++ suffix(i)) returns, empty
\* when the entry holds no value.
C10_ValidatorsSequence ==
    vals.ok =>
        LET n == CountOf(Ext_storage(overlay, backend, ValidatorCountKey).res.val)
        IN /\ Len(vals.val) = n
           /\ \A i \in 0..(n - 1) :
                  LET r == Ext_storage(overlay, backend,
                                       ValidatorKey \o SuffixOf(i)).res
                  IN r.ok /\ vals.val[i + 1] = r.val

\* a list of more than 256 entries from a two-byte count: entry 0 set,
\* entry 1 without a value, entry 256 set
C10_Witness ==
    /\ vals.ok
    /\ Len(vals.val) > 256
    /\ vals.val[1] = <<102>>
    /\ vals.val[2] = <<>>
    /\ vals.val[257] = <<102>>
    /\ ValidatorCountKey \in DOMAIN overlay.prospective

\* C11: decoding the value_vec encoding of i gives i; the encoding of 0 has
\* no byte and the last byte of the encoding of i > 0 is not zero.
C11_EncodingRoundTrip ==
    /\ codec.stage = "decoded" => codec.decoded = codec.value
    /\ codec.stage \in {"encoded", "decoded"} =>
           /\ codec.value = 0 => codec.bytes = <<>>
           /\ codec.value > 0 =>
                  /\ Len(codec.bytes) > 0
                  /\ codec.bytes[Len(codec.bytes)] # 0

\* the round trip of 65536, three bytes of which two are zero
C11_Witness ==
    /\ codec.stage = "decoded"
    /\ codec.value = 65536
    /\ codec.bytes = <<0, 0, 1>>
    /\ codec.decoded = 65536

\* the entry the claim resolves for k: the prospective one, else the
\* committed one; an empty entry reads as absent
ResolvedEntry(k) ==
    IF k \in DOMAIN overlay.prospective
    THEN (IF overlay.prospective[k] = <<>> THEN None
          ELSE Some(overlay.prospective[k]))
    ELSE IF k \in DOMAIN overlay.committed
    THEN (IF overlay.committed[k] = <<>> THEN None
          ELSE Some(overlay.committed[k]))
    ELSE None

\* C12: a second discard_prospective() right after a first one leaves the
\* prospective and the committed layer as the first one left them.
C12_DiscardIdempotent ==
    (op = "discard" /\ again) =>
        /\ overlay = undo
        /\ \A k \in Keys : read(k) = OverlayedChanges_storage(undo, k)

\* two discards in a row over a committed layer that holds values
C12_Witness ==
    /\ op = "discard"
    /\ again
    /\ DOMAIN overlay.committed = Keys

\* C13: read(k) is the prospective entry of k if there is one, else the
\* committed entry if there is one, else absent, and an empty entry reads
\* as absent; Ext.storage returns the entry so resolved when there is one.
C13_ReadResolution ==
    /\ \A k \in Keys : read(k) = ResolvedEntry(k)
    /\ (lastRead.valid /\ ResolvedEntry(lastRead.key).some)
           => lastRead.res = Ok(ResolvedEntry(lastRead.key).val)

\* a read of a key whose empty prospective entry masks a committed value
C13_Witness ==
    /\ lastRead.valid
    /\ lastRead.key \in DOMAIN overlay.prospective
    /\ overlay.prospective[lastRead.key] = <<>>
    /\ lastRead.key \in DOMAIN overlay.committed
    /\ overlay.committed[lastRead.key] # <<>>
    /\ read(lastRead.key) = None

\* C14: inside a call, Ext.storage(k) returns the non-empty value the call
\* wrote last to k.
C14_ReadYourWrites ==
    (lastRead.valid /\ NonEmptyWrite(callWrites[lastRead.key]))
        => lastRead.res = Ok(callWrites[lastRead.key].val)

\* a read of a written key for which the committed layer and the backend
\* hold another value
C14_Witness ==
    /\ lastRead.valid
    /\ callWrites[lastRead.key] = Some(<<2>>)
    /\ lastRead.key \in DOMAIN overlay.committed
    /\ overlay.committed[lastRead.key] = <<1>>
    /\ backend[lastRead.key] = Ok(<<1>>)
    /\ lastRead.res = Ok(<<2>>)

\* C15: once a successful execute() has written the empty value to k, for
\* which the backend holds a non-empty value, Ext.storage(k) does not
\* return the backend's value until a non-empty value is written to k.
C15_CommittedDeletionMasksBackend ==
    (/\ lastRead.valid
     /\ lastRead.key \in deleted
     /\ backend[lastRead.key].ok
     /\ backend[lastRead.key].val # <<>>)
    => lastRead.res # backend[lastRead.key]

\* C16: a write changes the prospective entry of one key and nothing else
\* of the overlay; a discard changes the prospective layer only; both leave
\* the committed layer and the backend unchanged.
C16_WriteDiscardFrame ==
    [][/\ (op' = "write" \/ (pc = "call" /\ pc' = "call" /\ ~lastRead'.valid))
           => /\ overlay'.committed = overlay.committed
              /\ backend' = backend
              /\ \E k \in Keys :
                     /\ k \in DOMAIN overlay'.prospective
                     /\ MapRemove(overlay'.prospective, k)
                            = MapRemove(overlay.prospective, k)
       /\ op' \in {"discard", "exec_err"}
           => /\ overlay'.committed = overlay.committed
              /\ backend' = backend]_vars

\* a write of a key over a committed value, another key committed as well
C16_Witness ==
    /\ op = "write"
    /\ DOMAIN overlay.committed = Keys
    /\ \E k \in DOMAIN overlay.prospective :
           overlay.prospective[k] # overlay.committed[k]

\* C18: the committed layer maps no key to the empty value.
C18_NoEmptyCommitted ==
    \A k \in DOMAIN overlay.committed : overlay.committed[k] # <<>>

\* a successful execute() that deleted a committed key
C18_Witness ==
    /\ op = "exec_ok"
    /\ \E k \in Keys : /\ callWrites[k] = Some(<<>>)
                       /\ k \in DOMAIN undo.committed
                       /\ k \in DOMAIN undo.prospective
                       /\ undo.prospective[k] = <<>>

\* the entry of k in the layer m
Entry(m, k) == IF k \in DOMAIN m THEN Some(m[k]) ELSE None

\* C19: when execute() returns the prospective layer is empty; over an
\* overlay mutated through execute(), commit_prospective() and
\* discard_prospective() only, the prospective layer is empty when a call
\* starts, holds the writes of that call alone, and on return all of them
\* are in the committed layer or none is.
C19_CallIsOneUnit ==
    /\ op \in {"exec_ok", "exec_err"} =>
           /\ DOMAIN overlay.prospective = {}
           /\ DOMAIN undo.prospective = {k \in Keys : callWrites[k].some}
    /\ pc = "call" =>
           /\ preEmpty
           /\ DOMAIN overlay.prospective = {k \in Keys : callWrites[k].some}
    /\ op = "exec_ok" =>
           \A k \in Keys :
               Entry(overlay.committed, k) =
                   IF callWrites[k].some
                   THEN (IF callWrites[k].val = <<>> THEN None ELSE callWrites[k])
                   ELSE Entry(undo.committed, k)
    /\ op = "exec_err" => overlay.committed = undo.committed

\* a failed call that had written both keys, after a successful one
C19_Witness ==
    /\ op = "exec_err"
    /\ \A k \in Keys : callWrites[k].some
    /\ DOMAIN overlay.committed # {}
    /\ \E k \in Keys : Entry(overlay.committed, k) # callWrites[k]

\* what storage() returns for the count and for entry i
CountRead == Ext_storage(overlay, backend, ValidatorCountKey).res
EntryRead(i) == Ext_storage(overlay, backend, ValidatorKey \o SuffixOf(i)).res

\* validators() has been called and nothing was written since
ValidatorsCalled == vals # NoVals

\* C17: validators() returns the error of the read of the count if that
\* fails, else the error of the first entry read that fails, with no
\* values; it succeeds only if the read of the count and of each of the n
\* entries succeeds.
C17_ValidatorsFailAsWhole ==
    ValidatorsCalled =>
        IF ~CountRead.ok THEN vals = Err(CountRead.err)
        ELSE LET n == CountOf(CountRead.val)
                 failed == {i \in 0..(n - 1) : ~EntryRead(i).ok}
             IN IF failed = {} THEN vals.ok
                ELSE /\ ~vals.ok
                     /\ vals.val = <<>>
                     /\ \E i \in failed :
                            /\ \A j \in failed : i <= j
                            /\ vals.err = EntryRead(i).err

\* a list of at least two entries: entry 0 is read, the read of entry 1
\* fails in the backend
C17_Witness ==
    /\ ValidatorsCalled
    /\ CountRead.ok
    /\ CountOf(CountRead.val) > 1
    /\ EntryRead(0) = Ok(<<102>>)
    /\ EntryRead(1) = Err("corrupt")
    /\ vals = Err("corrupt")

====
